---- MODULE Spec2Model ----
(***************************************************************************)
(* YouTube Agent: the domain sanitizer (services/geminiService.ts) and the *)
(* analysis orchestration with its history store (App.tsx).                *)
(*                                                                         *)
(* JavaScript values are encoded uniformly so that every value of one      *)
(* field has one TLA+ shape:                                               *)
(*   - a scalar is a string; the strings UNDEF and NULLV stand for the     *)
(*     values undefined (a missing key) and null, NUM for a number;        *)
(*   - a value in an array-typed position is a record [k, a]: k is the     *)
(*     kind of the value ("missing", "null", "str", "arr") and a holds the *)
(*     elements when k = "arr";                                            *)
(*   - an object is a record with every key of its type, a missing key     *)
(*     holding UNDEF (scalars) or Missing (array positions).               *)
(***************************************************************************)
EXTENDS Integers, Sequences, FiniteSets, TLC

(***************************************************************************)
(* Bounds                                                                  *)
(***************************************************************************)
MaxLen == 2        \* longest array the sanitizer is given
MaxOps == 2        \* analyses in flight at the same time
MaxCalls == 2      \* analysis requests issued in one run

(***************************************************************************)
(* JavaScript values                                                       *)
(***************************************************************************)
UNDEF == "<undefined>"
NULLV == "<null>"
NUM == "<number>"

\* JS truthiness of a scalar: undefined, null and "" are falsy.
Truthy(s) == s \notin {UNDEF, NULLV, ""}

IsString(s) == s \notin {UNDEF, NULLV, NUM}

Missing == [k |-> "missing", a |-> <<>>]
NullArr == [k |-> "null", a |-> <<>>]
StrArr == [k |-> "str", a |-> <<>>]
Arr(s) == [k |-> "arr", a |-> s]
EmptyArr == Arr(<<>>)

IsArray(v) == v.k = "arr"

\* const ensureArray = (item) => Array.isArray(item) ? item : [];
ensureArray(item) == IF IsArray(item) THEN item ELSE EmptyArr

(***************************************************************************)
(* types.ts: StudySection, ReviewDetails, AnalysisData as parsed JSON      *)
(***************************************************************************)
\* One element of data.studyNotes: an object {title, points}, or null, or a
\* number (JSON.parse can return any of these inside an array).
Section(k, title, points) == [k |-> k, title |-> title, points |-> points]
NullSection == Section("null", UNDEF, Missing)
NumSection == Section("num", UNDEF, Missing)

\* data.reviewDetails: missing, null, a truthy non-object (a string) or an
\* object with any of its keys missing.
Review(k, item, rating, pros, cons, verdict) ==
  [k |-> k, item |-> item, rating |-> rating, pros |-> pros, cons |-> cons,
   verdict |-> verdict]
NoReview == Review("missing", UNDEF, UNDEF, Missing, Missing, UNDEF)
NullReview == Review("null", UNDEF, UNDEF, Missing, Missing, UNDEF)
StrReview == Review("str", UNDEF, UNDEF, Missing, Missing, UNDEF)

\* The keys of AnalysisData that hold arrays of scalars/objects without
\* nested arrays.
FlatSeqFields == {"timestamps", "themes", "quotes", "speakers", "subTopics"}

\* {} : an object with no key at all.
EmptyObject ==
  [k |-> "obj", videoId |-> UNDEF, title |-> UNDEF, videoType |-> UNDEF,
   transcript |-> UNDEF, timestamps |-> Missing, themes |-> Missing,
   studyNotes |-> Missing, quotes |-> Missing, speakers |-> Missing,
   subTopics |-> Missing, reviewDetails |-> NoReview]

\* The value null (JSON.parse("null"), or a history item without data).
NullData == [EmptyObject EXCEPT !.k = "null"]

(***************************************************************************)
(* services/geminiService.ts: sanitizeData                                 *)
(***************************************************************************)
\* (s) => ({ ...s, points: ensureArray(s.points) }); reading s.points of
\* null raises a TypeError, which IsNullElement detects before the map.
sanitizeSection(s) == [s EXCEPT !.k = "obj", !.points = ensureArray(s.points)]

IsNullElement(s) == s.k = "null"

\* data.reviewDetails ? { item: .. || "Unknown", rating, pros, cons,
\*                        verdict: .. || "No verdict." } : undefined
sanitizeReview(r) ==
  IF r.k \in {"obj", "str"}
  THEN Review("obj",
              IF Truthy(r.item) THEN r.item ELSE "Unknown",
              r.rating,
              ensureArray(r.pros),
              ensureArray(r.cons),
              IF Truthy(r.verdict) THEN r.verdict ELSE "No verdict.")
  ELSE NoReview

Returned(v) == [ok |-> TRUE, v |-> v]
Raised == [ok |-> FALSE, v |-> NullData]

\* export const sanitizeData = (data: any): AnalysisData => { ... }
\* The result is Returned(record), or Raised when the map over studyNotes
\* dereferences a null element.
sanitizeData(data) ==
  IF data.k # "obj"
  THEN Returned(EmptyObject)
  ELSE LET notes == ensureArray(data.studyNotes).a
       IN IF \E i \in 1..Len(notes) : IsNullElement(notes[i])
          THEN Raised
          ELSE Returned(
                 [data EXCEPT
                    !.videoType = IF Truthy(data.videoType) THEN data.videoType
                                  ELSE "General",
                    !.timestamps = ensureArray(data.timestamps),
                    !.themes = ensureArray(data.themes),
                    !.studyNotes =
                       Arr([i \in 1..Len(notes) |-> sanitizeSection(notes[i])]),
                    !.quotes = ensureArray(data.quotes),
                    !.speakers = ensureArray(data.speakers),
                    !.subTopics = ensureArray(data.subTopics),
                    !.reviewDetails = sanitizeReview(data.reviewDetails)])

(***************************************************************************)
(* App.tsx: URLs and validation                                            *)
(***************************************************************************)
\* A URL string, described by what the code reads from it:
\*   blank  - url.trim() is empty
\*   parses - new URL(url) succeeds
\*   host   - parsedUrl.hostname.toLowerCase()
\*   marker - the regular expression of getYouTubeId matches one of
\*            youtu.be/ v/ u/w/ embed/ watch?v= &v=
\*   token  - what follows the marker up to the next # & ? (match[2])
Url(blank, parses, host, marker, token) ==
  [blank |-> blank, parses |-> parses, host |-> host, marker |-> marker,
   token |-> token]

ID1 == "dQw4w9WgXcQ"
ID2 == "aaaaaaaaaaa"
NOT_FOUND == "NOT_FOUND"

UrlEmpty == Url(TRUE, FALSE, "", FALSE, "")
UrlShort1 == Url(FALSE, TRUE, "youtu.be", TRUE, ID1)
UrlExample == Url(FALSE, TRUE, "example.com", FALSE, "")
UrlShortToken == Url(FALSE, TRUE, "www.youtube.com", TRUE, "short")
\* `https://www.youtube.com/watch?v=${videoId}`
WatchUrl(videoId) == Url(FALSE, TRUE, "www.youtube.com", TRUE, videoId)

\* Length of the identifier token required by getYouTubeId.
IdLength == 11

\* getYouTubeId: null (NULLV) unless the pattern matches and the token has
\* exactly 11 characters.
getYouTubeIdAnyLength(u) ==
  IF u.blank THEN NULLV
  ELSE IF u.marker THEN u.token ELSE NULLV
getYouTubeId(u) ==
  IF u.blank THEN NULLV
  ELSE IF u.marker /\ Len(u.token) = IdLength THEN u.token ELSE NULLV

\* hostname.includes('youtube.com') || hostname.includes('youtu.be')
IsYouTubeHost(h) == h \in {"youtube.com", "www.youtube.com", "m.youtube.com", "youtu.be"}

NoError == "<no error>"

\* validateYouTubeUrl: the message to show, or NoError (null) when valid.
validateYouTubeUrl(u) ==
  IF u.blank THEN "Please enter a YouTube URL."
  ELSE IF ~u.parses THEN "Invalid URL format."
  ELSE IF ~IsYouTubeHost(u.host)
       THEN "Please provide a valid YouTube URL (youtube.com or youtu.be)."
  ELSE IF getYouTubeId(u) = NULLV
       THEN "Could not find a valid Video ID. Please check the link format."
  ELSE NoError

\* !transcript.trim()
IsBlank(t) == t \in {"", "   "}

(***************************************************************************)
(* App.tsx: state                                                          *)
(***************************************************************************)
VARIABLES
  inputMode,   \* useState<'url' | 'transcript' | 'audio'>
  url,         \* useState('') : a Url record
  transcript,  \* useState('')
  isLoading,   \* useState(false)
  error,       \* useState<string | null>(null); NoError is null
  data,        \* useState<AnalysisData | null>(null); NullData is null
  history,     \* useState<HistoryItem[]>([])
  storage,     \* localStorage['yt_agent_history']
  memoHistory, \* the `history` the memoized handleAnalyze closes over
  ops,         \* the analyses in flight, oldest first
  now,         \* Date.now(), advanced by every save
  netCalls,    \* number of network/model requests issued so far
  budget,      \* number of requests the run may issue (fixed by Init)
  ev,          \* what the last step did (observer)
  saved,       \* every item committed so far, oldest first (observer)
  sIn,         \* sanitizer check: the input
  sOut,        \* sanitizer check: sanitizeData(sIn)
  sOut2,       \* sanitizer check: sanitizeData of the record in sOut
  sPc          \* sanitizer check: "none", "in", "once", "twice"

appVars == <<inputMode, url, transcript, isLoading, error, data, history,
             storage, memoHistory, ops, now, netCalls, budget, ev, saved>>
sanVars == <<sIn, sOut, sOut2, sPc>>

(***************************************************************************)
(* components/AnalysisResult.tsx, ChatInterface.tsx, QuizInterface.tsx:    *)
(* state                                                                   *)
(***************************************************************************)
VARIABLES
  shown,             \* the `data` prop of the mounted AnalysisResult; NULLV when App renders none
  activeTab,         \* AnalysisResult: useState('summary')
  chatInitialQuery,  \* AnalysisResult: useState('')
  researchData,      \* AnalysisResult: useState<ResearchResult | null>(null), named by its topic
  isResearching,     \* AnalysisResult: useState(false)
  researchTopic,     \* AnalysisResult: useState('')
  resOps,            \* topics of the performDeepResearch calls in flight, oldest first
  forcedChatContext, \* AnalysisResult: useState<'video' | 'research' | null>(null)
  quizPromise,       \* AnalysisResult: quizPromiseRef.current
  quizView,          \* QuizInterface: what the mounted instance shows; "none" when not mounted
  activeContext,     \* ChatInterface: useState<'video' | 'research'>('video')
  videoMessages,     \* ChatInterface: useState<ChatMessage[]>([])
  researchMessages,  \* ChatInterface: useState<ChatMessage[]>([])
  chatLoading,       \* ChatInterface: useState(false) (isLoading)
  calls,             \* askVideoQuestion/askResearchQuestion calls in flight, oldest first
  asked,             \* number of questions accepted so far
  uev                \* what the last step of these components did (observer)

uiVars == <<shown, activeTab, chatInitialQuery, researchData, isResearching,
            researchTopic,
            resOps, forcedChatContext, quizPromise, quizView, activeContext,
            videoMessages, researchMessages, chatLoading, calls, asked, uev>>

(***************************************************************************)
(* services/geminiService.ts and server.js: one request and its response   *)
(***************************************************************************)
VARIABLES
  responseText,    \* response.text of the model, a sequence of lexemes
  transcriptText,  \* server.js: transcriptText ("" when none was fetched)
  modelOutcome,    \* what the model does with the request of /api/analyze
  config,          \* the `config` of the generateContent request last built
  parsed,          \* what the extractor made of responseText
  apiResponse,     \* what /api/analyze answered
  svcPc            \* "none", "in", or the operation that ran

svcVars == <<responseText, transcriptText, modelOutcome, config, parsed,
             apiResponse, svcPc>>

(***************************************************************************)
(* components/QuizInterface.tsx: state                                     *)
(***************************************************************************)
VARIABLES
  quizData,         \* useState<QuizData | null>(null)
  quizIsLoading,    \* useState(false) (isLoading)
  currentQuestion,  \* useState(0)
  selectedOption,   \* useState<number | null>(null); -1 is null
  score,            \* useState(0)
  showResult,       \* useState(false)
  isFinished,       \* useState(false)
  quizError,        \* useState<string | null>(null) (error)
  promised,         \* the quizPromise prop: what it settles with
  awaiting,         \* what the instance awaits: "none", "promise", "generateQuiz"
  answered,         \* questions answered since the quiz was (re)started (observer)
  qev               \* what the last step of QuizInterface did (observer)

quizVars == <<quizData, quizIsLoading, currentQuestion, selectedOption, score,
              showResult, isFinished, quizError, promised, awaiting, answered,
              qev>>

vars == <<appVars, sanVars, uiVars, svcVars, quizVars>>

\* What the observer records of one step: what happened (kind), in which
\* context (ctx), for which question (q) and with how many generateQuiz
\* calls started by the prefetch effect (prefetched).
UiStep(kind, ctx, q, prefetched) ==
  [kind |-> kind, ctx |-> ctx, q |-> q, prefetched |-> prefetched]
UiEvent(kind) == UiStep(kind, NULLV, NULLV, 0)

NoPromise == [st |-> "none", for |-> NULLV]

\* No AnalysisResult is mounted (App renders it when data && !isLoading).
UiIdle ==
  /\ shown = NULLV
  /\ activeTab = "summary"
  /\ chatInitialQuery = ""
  /\ researchData = NULLV
  /\ isResearching = FALSE
  /\ researchTopic = ""
  /\ resOps = <<>>
  /\ forcedChatContext = NULLV
  /\ quizPromise = NoPromise
  /\ quizView = "none"
  /\ activeContext = "video"
  /\ videoMessages = <<>>
  /\ researchMessages = <<>>
  /\ chatLoading = FALSE
  /\ calls = <<>>
  /\ asked = 0
  /\ uev = UiEvent("idle")

\* The cap of the history: .slice(0, 10)
HistoryCap == 10

\* MAX_SIZE = 20 * 1024 * 1024
MAX_SIZE == 20 * 1024 * 1024

\* localStorage content: absent, or the JSON text of an array of items.
Absent == [k |-> "absent", items |-> <<>>]
\* JSON.stringify(updated): keys holding undefined are dropped, which the
\* encoding of objects already identifies with missing keys.
Stringify(items) == [k |-> "array", items |-> items]

\* The observer's record of one step: what happened (kind), in which
\* operation (op), how many times the step called setError with a message
\* (nerr), the identifier the operation asked for (requested), the record
\* the analysis strategy returned (result; NullData when none) and, for an
\* upload, file.size (size; 0 otherwise); whether the step settled a request
\* the model answered without text (empty).
Step(kind, op, nerr, requested, result) ==
  [kind |-> kind, op |-> op, nerr |-> nerr, requested |-> requested,
   result |-> result, size |-> 0, empty |-> FALSE]
Event(kind, op, nerr) == Step(kind, op, nerr, NULLV, NullData)

(***************************************************************************)
(* App.tsx: the history store                                              *)
(***************************************************************************)
Take(seq, n) == SubSeq(seq, 1, IF Len(seq) < n THEN Len(seq) ELSE n)

\* const newItem: HistoryItem = { id: sanitizedData.videoId || Date.now().toString(), ... }
NewItem(sd, t) ==
  [id |-> IF Truthy(sd.videoId) THEN sd.videoId ELSE ToString(t),
   title |-> sd.title,
   date |-> t,
   type |-> sd.videoType,
   thumbnail |-> IF Truthy(sd.videoId) THEN sd.videoId ELSE UNDEF,
   data |-> sd]

\* [newItem, ...history.filter(h => h.id !== newItem.id)].slice(0, 10)
\* `closed` is the `history` of the render whose saveToHistory is running.
UpdatedKeepingDuplicates(item, closed) == Take(<<item>> \o closed, HistoryCap)
Updated(item, closed) ==
  Take(<<item>> \o SelectSeq(closed, LAMBDA h : h.id # item.id), HistoryCap)

saveToHistoryRaising(newData, closed, t) == [ok |-> FALSE, updated |-> closed]

\* saveToHistory(newData): Raised when sanitizeData raises, else the array
\* handed to setHistory and to localStorage.setItem.
saveToHistory(newData, closed, t) ==
  LET sd == sanitizeData(newData)
  IN IF sd.ok
     THEN [ok |-> TRUE, updated |-> Updated(NewItem(sd.v, t), closed)]
     ELSE [ok |-> FALSE, updated |-> closed]

(***************************************************************************)
(* services/geminiService.ts: the analysis strategies                      *)
(***************************************************************************)
\* What the remote side does with one request:
\*   reject  - the request fails (transport error, or the backend answers
\*             with a non-2xx status and {error})
\*   empty   - the model returns no text
\*   garbage - the model returns text that is not JSON even after repair
\*   body    - a parsed JSON value
Reject == [t |-> "reject", body |-> NullData]
Empty == [t |-> "empty", body |-> NullData]
Garbage == [t |-> "garbage", body |-> NullData]
Got(body) == [t |-> "body", body |-> body]

Body(videoId, title, text) ==
  [EmptyObject EXCEPT !.videoId = videoId, !.title = title, !.transcript = text]

\* JSON bodies the backend may answer a URL analysis with.
UrlBodies ==
  {Body(UNDEF, "A", UNDEF), Body(ID1, "A", UNDEF), Body(ID2, "A", UNDEF),
   Body(NOT_FOUND, "A", UNDEF)}

\* JSON values the model may answer a transcript/media analysis with.
ModelBodies ==
  {Body(UNDEF, "Video Title", UNDEF), Body(UNDEF, "A", "T1"),
   Body(ID1, "B", UNDEF)}

UrlOutcomes == {Reject} \cup {Got(b) : b \in UrlBodies}
ModelOutcomes == {Reject, Empty, Garbage} \cup {Got(b) : b \in ModelBodies}

Ok(v) == [ok |-> TRUE, v |-> v, msg |-> NoError]
Fail(msg) == [ok |-> FALSE, v |-> NullData, msg |-> msg]

\* analyzeUrlWithGrounding: every failure inside the try, the TypeError of
\* sanitizeData included, is rethrown as "Analysis Failed: ...".
analyzeUrlWithGrounding(o) ==
  IF o.t # "body" THEN Fail("Analysis Failed: Backend analysis failed")
  ELSE LET r == sanitizeData(o.body)
       IN IF r.ok THEN Ok(r.v) ELSE Fail("Analysis Failed: TypeError")

\* analyzeTranscript and analyzeMultimodalContent:
\*   sanitizeData(parseGenerativeJson(response.text || "{}"))
analyzeWithModel(o) ==
  IF o.t = "reject" THEN Fail("xhr error")
  ELSE IF o.t = "garbage" THEN Fail("Failed to parse AI response.")
  ELSE LET r == sanitizeData(IF o.t = "empty" THEN EmptyObject ELSE o.body)
       IN IF r.ok THEN Ok(r.v) ELSE Fail("TypeError")

(***************************************************************************)
(* services/geminiService.ts and server.js: the generation requests        *)
(***************************************************************************)
\* The `config` of a generateContent request: whether it carries
\* tools: [{ googleSearch: {} }], responseMimeType, responseSchema.
NoConfig == [tools |-> FALSE, responseMimeType |-> FALSE, responseSchema |-> FALSE]

\* The operations that call ai.models.generateContent.
Strategies ==
  {"analyzeTranscript", "analyzeMultimodalContent", "askVideoQuestion",
   "askResearchQuestion", "generateQuiz", "performDeepResearch", "/api/analyze"}

RequestConfigStrictEverywhere(s, tt) ==
  [tools |-> s = "performDeepResearch" \/ (s = "/api/analyze" /\ tt = ""),
   responseMimeType |-> TRUE, responseSchema |-> FALSE]
\* The config each operation builds; /api/analyze chooses by whether a
\* transcript was fetched (tt is transcriptText).
RequestConfig(s, tt) ==
  CASE s \in {"analyzeTranscript", "analyzeMultimodalContent"} ->
         [NoConfig EXCEPT !.responseMimeType = TRUE]
    [] s = "performDeepResearch" -> [NoConfig EXCEPT !.tools = TRUE]
    [] s = "/api/analyze" ->
         IF tt # "" THEN [NoConfig EXCEPT !.responseMimeType = TRUE]
                    ELSE [NoConfig EXCEPT !.tools = TRUE]
    [] OTHER -> NoConfig

(***************************************************************************)
(* services/geminiService.ts and server.js: the JSON extractor             *)
(*                                                                         *)
(* A text is a sequence of lexemes: " " (a run of white space), "Here" (a  *)
(* word of commentary), "<fence>" (three backticks), "json" (a fence's tag),  *)
(* the JSON punctuation, the numbers 1 and 2, and three string literals:   *)
(* "a", ",]" (a string whose content is a comma and a bracket) and "]".    *)
(***************************************************************************)
Closers == {"]", "}"}
Strings == {"\"a\"", "\",]\"", "\"]\""}
Scalars == Strings \cup {"1", "2"}

Min(S) == CHOOSE x \in S : \A y \in S : x <= y

RECURSIVE TrimStart(_)
TrimStart(s) == IF s # <<>> /\ Head(s) = " " THEN TrimStart(Tail(s)) ELSE s

RECURSIVE TrimEnd(_)
TrimEnd(s) ==
  IF s # <<>> /\ s[Len(s)] = " " THEN TrimEnd(SubSeq(s, 1, Len(s) - 1)) ELSE s

\* String.prototype.trim
trim(s) == TrimEnd(TrimStart(s))

FenceAt(s) == {i \in 1..Len(s) : s[i] = "<fence>"}

\* clean.match(/```(?:json)?([\s\S]*?)```/): matches[1], the text between
\* the first fence (and its tag) and the next fence; empty when there is
\* no match.
FencedBlock(s) ==
  LET open == Min(FenceAt(s))
      from == IF open < Len(s) /\ s[open + 1] = "json" THEN open + 2 ELSE open + 1
      closes == {j \in FenceAt(s) : j >= from}
  IN IF closes = {} THEN <<>> ELSE SubSeq(s, from, Min(closes) - 1)

\* clean.replace(/^```json\s*/, "").replace(/^```\s*/, "").replace(/\s*```$/, "")
StripFenceMarkers(s) ==
  LET a == IF Len(s) >= 2 /\ s[1] = "<fence>" /\ s[2] = "json"
           THEN TrimStart(SubSeq(s, 3, Len(s))) ELSE s
      b == IF a # <<>> /\ a[1] = "<fence>" THEN TrimStart(Tail(a)) ELSE a
  IN IF b # <<>> /\ b[Len(b)] = "<fence>"
     THEN TrimEnd(SubSeq(b, 1, Len(b) - 1)) ELSE b

\* The fence handling both cleanJsonString functions start with.  (The
\* client also deletes the markers ABLES_START and {:.language-json}, which
\* no text here contains.)
stripFences(text) ==
  LET clean == trim(text)
  IN IF FenceAt(clean) = {} THEN clean
     ELSE IF FencedBlock(clean) # <<>> THEN trim(FencedBlock(clean))
     ELSE StripFenceMarkers(clean)

\* The lexeme after position i, white space skipped ("" at the end).
NextLexeme(s, i) ==
  LET later == {j \in (i + 1)..Len(s) : s[j] # " "}
  IN IF later = {} THEN "" ELSE s[Min(later)]

\* jsonStr.replace(/,\s*([\]}])/g, '$1'): the pattern also matches inside a
\* string literal.
repairJson(jsonStr) ==
  LET marked == [i \in 1..Len(jsonStr) |->
                   IF jsonStr[i] = "," /\ NextLexeme(jsonStr, i) \in Closers
                   THEN "" ELSE jsonStr[i]]
      kept == SelectSeq(marked, LAMBDA x : x # "")
  IN [i \in 1..Len(kept) |-> IF kept[i] = "\",]\"" THEN "\"]\"" ELSE kept[i]]

\* The client's cleanJsonString.
cleanJsonString(text) == trim(stripFences(text))

\* The backend's cleanJsonString: the repair is applied to every text.
serverCleanJsonString(text) == repairJson(stripFences(text))

\* JSON.parse over lexemes: the position after the value that starts at
\* position i, or 0 when there is none.
RECURSIVE ParseValue(_, _), ParseMembers(_, _), ParseElements(_, _)
ParseValue(s, i) ==
  IF i > Len(s) THEN 0
  ELSE IF s[i] \in Scalars THEN i + 1
  ELSE IF s[i] = "{"
  THEN IF i < Len(s) /\ s[i + 1] = "}" THEN i + 2 ELSE ParseMembers(s, i + 1)
  ELSE IF s[i] = "["
  THEN IF i < Len(s) /\ s[i + 1] = "]" THEN i + 2 ELSE ParseElements(s, i + 1)
  ELSE 0

ParseMembers(s, i) ==
  IF i + 1 <= Len(s) /\ s[i] \in Strings /\ s[i + 1] = ":"
  THEN LET j == ParseValue(s, i + 2)
       IN IF j = 0 \/ j > Len(s) THEN 0
          ELSE IF s[j] = "}" THEN j + 1
          ELSE IF s[j] = "," THEN ParseMembers(s, j + 1)
          ELSE 0
  ELSE 0

ParseElements(s, i) ==
  LET j == ParseValue(s, i)
  IN IF j = 0 \/ j > Len(s) THEN 0
     ELSE IF s[j] = "]" THEN j + 1
     ELSE IF s[j] = "," THEN ParseElements(s, j + 1)
     ELSE 0

\* What an extraction yields: a value (its lexemes without white space),
\* or the message of the error thrown.
Parsed(v) == [ok |-> TRUE, v |-> v, err |-> ""]
ParseError(msg) == [ok |-> FALSE, v |-> <<>>, err |-> msg]

JsonParse(s) ==
  LET lexemes == SelectSeq(s, LAMBDA x : x # " ")
  IN IF ParseValue(lexemes, 1) = Len(lexemes) + 1
     THEN Parsed(lexemes)
     ELSE ParseError("SyntaxError")

\* try { JSON.parse(cleaned) } catch { try { JSON.parse(repairJson(cleaned)) }
\* catch { throw new Error(`Failed to parse AI response.`) } }
parseGenerativeJson(text) ==
  LET cleaned == cleanJsonString(text)
  IN IF JsonParse(cleaned).ok THEN JsonParse(cleaned)
     ELSE IF JsonParse(repairJson(cleaned)).ok THEN JsonParse(repairJson(cleaned))
     ELSE ParseError("Failed to parse AI response.")

\* server.js: JSON.parse(cleanJsonString(text))
serverParse(text) == JsonParse(serverCleanJsonString(text))

(***************************************************************************)
(* server.js: POST /api/analyze                                            *)
(***************************************************************************)
\* The route from the model's answer on: `if (!text) throw`, JSON.parse,
\* `if (transcriptText) jsonData.transcript = transcriptText` (a TypeError
\* when jsonData is null), res.json(jsonData); every throw becomes a 500
\* response.
apiAnalyze(tt, o) ==
  IF o.t # "body" THEN Reject
  ELSE IF tt = "" THEN Got(o.body)
  ELSE IF o.body.k = "null" THEN Reject
  ELSE Got([o.body EXCEPT !.transcript = tt])

(***************************************************************************)
(* App.tsx: derived values of a render                                     *)
(***************************************************************************)
\* const videoId = getYouTubeId(url);
videoId == getYouTubeId(url)

\* const isAnalysisComplete = !!(data && !isLoading && (...))
isAnalysisComplete ==
  /\ data.k = "obj"
  /\ ~isLoading
  /\ \/ inputMode = "url" /\ videoId # NULLV /\ data.videoId = videoId
     \/ inputMode = "transcript" /\ data.transcript = transcript /\ transcript # ""

\* if (videoId && result.videoId && result.videoId !== videoId
\*     && result.videoId !== "NOT_FOUND") throw new Error("Analysis Mismatch ...")
NoMismatchCheck(requested, result) == FALSE
IsMismatch(requested, result) ==
  /\ Truthy(requested)
  /\ Truthy(result.videoId)
  /\ result.videoId # requested
  /\ result.videoId # NOT_FOUND

\* useCallback(..., [url, transcript, videoId, inputMode, videoTypeFilter]):
\* handleAnalyze, and with it the saveToHistory and `history` it closes
\* over, is replaced only by a render in which one of these changed.  The
\* content-type filter is left at 'Auto' throughout.
Memo(newMode, newUrl, newTranscript, newHistory) ==
  IF <<newMode, newUrl, newTranscript>> # <<inputMode, url, transcript>>
  THEN newHistory
  ELSE memoHistory

(***************************************************************************)
(* App.tsx: the user edits the inputs                                      *)
(***************************************************************************)
TypedUrls == {UrlShort1, UrlExample, UrlShortToken}
TypedTranscripts == {"T1"}
PdfTexts == {"", "[Page 1] text"}

Observe(e) == ev' = e

SetUrl(u) ==
  /\ u # url
  /\ url' = u
  /\ memoHistory' = Memo(inputMode, u, transcript, history)
  /\ Observe(Event("edit", "none", 0))
  /\ UNCHANGED <<inputMode, transcript, isLoading, error, data, history,
                 storage, ops, now, netCalls, saved, budget, sanVars, uiVars, svcVars, quizVars>>

SetTranscript(t) ==
  /\ t # transcript
  /\ transcript' = t
  /\ memoHistory' = Memo(inputMode, url, t, history)
  /\ Observe(Event("edit", "none", 0))
  /\ UNCHANGED <<inputMode, url, isLoading, error, data, history,
                 storage, ops, now, netCalls, saved, budget, sanVars, uiVars, svcVars, quizVars>>

SetInputMode(m) ==
  /\ m # inputMode
  /\ inputMode' = m
  /\ memoHistory' = Memo(m, url, transcript, history)
  /\ Observe(Event("edit", "none", 0))
  /\ UNCHANGED <<url, transcript, isLoading, error, data, history,
                 storage, ops, now, netCalls, saved, budget, sanVars, uiVars, svcVars, quizVars>>

(***************************************************************************)
(* App.tsx: handleAnalyze                                                  *)
(***************************************************************************)
Op(kind, pc, requested, closed, text) ==
  [kind |-> kind, pc |-> pc, requested |-> requested, closed |-> closed,
   text |-> text]

Room == netCalls + Len(ops) < budget /\ Len(ops) < MaxOps

\* The "Generate Analysis" button: rendered unless inputMode is 'audio',
\* disabled={isLoading || isAnalysisComplete}.
CanAnalyze == inputMode # "audio" /\ ~isLoading /\ ~isAnalysisComplete

\* setError(validationError); return;
AnalyzeInvalid ==
  /\ CanAnalyze
  /\ \/ /\ inputMode = "url"
        /\ validateYouTubeUrl(url) # NoError
        /\ error' = validateYouTubeUrl(url)
     \/ /\ inputMode = "transcript"
        /\ IsBlank(transcript)
        /\ error' = "Please provide a transcript."
  /\ Observe(Event("validation", inputMode, 1))
  /\ UNCHANGED <<inputMode, url, transcript, isLoading, data, history,
                 storage, memoHistory, ops, now, netCalls, saved, budget, sanVars, uiVars, svcVars, quizVars>>

\* setIsLoading(true); setData(null); then the strategy is called: the
\* transcript strategy issues its request at once, the URL strategy after
\* the 500 ms pause.
AnalyzeStart ==
  /\ CanAnalyze
  /\ Room
  /\ \/ inputMode = "url" /\ validateYouTubeUrl(url) = NoError
     \/ inputMode = "transcript" /\ ~IsBlank(transcript)
  /\ error' = NoError
  /\ isLoading' = TRUE
  /\ data' = NullData
  /\ ops' = Append(ops, Op(inputMode,
                           IF inputMode = "url" THEN "prep" ELSE "net",
                           videoId, memoHistory, ""))
  /\ netCalls' = IF inputMode = "url" THEN netCalls ELSE netCalls + 1
  /\ Observe(Step("start", inputMode, 0, videoId, NullData))
  /\ UNCHANGED <<inputMode, url, transcript, history, storage, memoHistory,
                 now, saved, budget, sanVars, uiVars, svcVars, quizVars>>

handleAnalyze == AnalyzeInvalid \/ AnalyzeStart

(***************************************************************************)
(* App.tsx: handleFileUpload                                               *)
(***************************************************************************)
FileKinds == {"pdf", "video", "audio"}
FileSizes == {MAX_SIZE, MAX_SIZE + 1}

\* if (file.size > MAX_SIZE) { setError(`File too large ...`); return; }
TooLargeOffByOne(size) == size >= MAX_SIZE
TooLarge(size) == size > MAX_SIZE

\* The file input is rendered in 'audio' mode only; it is not disabled
\* while an analysis is loading.
handleFileUpload(kind, size) ==
  /\ inputMode = "audio"
  /\ IF TooLarge(size)
     THEN /\ error' = "File too large"
          /\ Observe([Event("rejected", kind, 1) EXCEPT !.size = size])
          /\ UNCHANGED <<isLoading, data, ops>>
     ELSE /\ Room
          /\ isLoading' = TRUE
          /\ error' = NoError
          /\ data' = NullData
          /\ ops' = Append(ops, Op(kind, "prep", NULLV, history, ""))
          /\ Observe([Event("start", kind, 0) EXCEPT !.size = size])
  /\ UNCHANGED <<inputMode, url, transcript, history, storage, memoHistory,
                 now, netCalls, saved, budget, sanVars, uiVars, svcVars, quizVars>>

(***************************************************************************)
(* App.tsx: an analysis in flight                                          *)
(***************************************************************************)
Remove(seq, i) == SubSeq(seq, 1, i - 1) \o SubSeq(seq, i + 1, Len(seq))

IsNetworkMessage(msg) == msg \in {"xhr error"}

\* The message each handler's catch block hands to setError.
CaughtMessage(kind, thrown) ==
  CASE kind \in {"url", "transcript", "pdf"} -> thrown
    [] kind = "video" ->
         IF IsNetworkMessage(thrown)
         THEN "Network error. The file might be too large or the request timed out. Try a smaller file."
         ELSE thrown
    [] kind = "audio" ->
         IF IsNetworkMessage(thrown)
         THEN "Network error. The file might be too large. Try a smaller file."
         ELSE "Failed to process audio."

\* result.title = file.name... for results the model left untitled.
Retitle(kind, r) ==
  CASE kind = "pdf" /\ r.title \in {"Video Title", "YouTube Video"} ->
         [r EXCEPT !.title = "doc"]
    [] kind \in {"video", "audio"} /\ r.title = "Video Title" ->
         [r EXCEPT !.title = "clip"]
    [] OTHER -> r

\* catch (err) { setError(...) } finally { setIsLoading(false) }
Abort(i, kind, thrown, requested, result) ==
  /\ error' = CaughtMessage(kind, thrown)
  /\ isLoading' = FALSE
  /\ ops' = Remove(ops, i)
  /\ Observe(Step("error", kind, 1, requested, result))

\* The step before the request: the 500 ms pause of the URL strategy,
\* extractTextFromPdf, or frame extraction and base64 encoding.
Prepare(i, text, fails) ==
  /\ i \in 1..Len(ops)
  /\ ops[i].pc = "prep"
  /\ LET op == ops[i]
     IN \/ /\ op.kind = "url" \/ (op.kind \in {"video", "audio"} /\ ~fails)
              \/ (op.kind = "pdf" /\ ~fails /\ ~IsBlank(text))
           /\ ops' = [ops EXCEPT ![i].pc = "net",
                                 ![i].text = IF op.kind = "pdf" THEN text ELSE ""]
           /\ netCalls' = netCalls + 1
           /\ Observe(Event("progress", op.kind, 0))
           /\ UNCHANGED <<isLoading, error>>
        \/ /\ op.kind \in {"pdf", "video", "audio"}
           /\ fails
           /\ Abort(i, op.kind,
                    IF op.kind = "pdf"
                    THEN "Failed to parse PDF file. Ensure it is a valid text-based PDF."
                    ELSE IF op.kind = "video" THEN "Failed to process video file."
                    ELSE "Failed to process audio.",
                    NULLV, NullData)
           /\ UNCHANGED netCalls
        \/ /\ op.kind = "pdf" /\ ~fails /\ IsBlank(text)
           /\ Abort(i, "pdf",
                    "No text found in PDF. It might be an image-based scan.",
                    NULLV, NullData)
           /\ UNCHANGED netCalls
  /\ UNCHANGED <<inputMode, url, transcript, data, history, storage,
                 memoHistory, now, saved, budget, sanVars, uiVars, svcVars, quizVars>>

\* The request settles with outcome o and the handler runs to its end.
Finish(i, o) ==
  /\ i \in 1..Len(ops)
  /\ ops[i].pc = "net"
  /\ o \in (IF ops[i].kind = "url" THEN UrlOutcomes ELSE ModelOutcomes)
  /\ LET op == ops[i]
         res == IF op.kind = "url" THEN analyzeUrlWithGrounding(o)
                ELSE analyzeWithModel(o)
         result == Retitle(op.kind, res.v)
         sv == saveToHistory(result, op.closed, now)
         newMode == IF op.kind = "pdf" THEN "transcript" ELSE inputMode
         newText == IF op.kind = "pdf" THEN op.text ELSE transcript
     IN \/ /\ ~res.ok
           /\ Abort(i, op.kind, res.msg, op.requested, NullData)
           /\ UNCHANGED <<inputMode, transcript, data, history, storage,
                          memoHistory, now, saved>>
        \/ /\ res.ok
           /\ op.kind = "url"
           /\ IsMismatch(op.requested, res.v)
           /\ Abort(i, op.kind,
                    "Analysis Mismatch: The AI analyzed a different video.",
                    op.requested, res.v)
           /\ UNCHANGED <<inputMode, transcript, data, history, storage,
                          memoHistory, now, saved>>
        \/ /\ res.ok
           /\ ~(op.kind = "url" /\ IsMismatch(op.requested, res.v))
           /\ data' = result
           /\ IF sv.ok
              THEN /\ history' = sv.updated
                   /\ storage' = Stringify(sv.updated)
                   /\ now' = now + 1
                   /\ saved' = Append(saved, sv.updated[1])
                   /\ inputMode' = newMode
                   /\ transcript' = newText
                   /\ memoHistory' = Memo(newMode, url, newText, sv.updated)
                   /\ isLoading' = FALSE
                   /\ ops' = Remove(ops, i)
                   /\ Observe([Step("success", op.kind, 0, op.requested, res.v)
                                 EXCEPT !.empty = (o.t = "empty")])
                   /\ UNCHANGED error
              ELSE /\ Abort(i, op.kind, "TypeError", op.requested, res.v)
                   /\ UNCHANGED <<inputMode, transcript, history, storage,
                                  memoHistory, now, saved>>
  /\ UNCHANGED <<url, netCalls, budget, sanVars, uiVars, svcVars, quizVars>>

(***************************************************************************)
(* App.tsx: loadFromHistory                                                *)
(***************************************************************************)
\* The list is rendered when history.length > 0 && !isLoading && !data.
loadFromHistory(n) ==
  /\ n \in 1..Len(history)
  /\ ~isLoading
  /\ data.k # "obj"
  /\ LET item == history[n]
         r == sanitizeData(item.data)
         newMode == IF Truthy(item.data.videoId) THEN "url"
                    ELSE IF Truthy(item.data.transcript) THEN "transcript"
                    ELSE inputMode
         newUrl == IF Truthy(item.data.videoId) THEN WatchUrl(item.data.videoId)
                   ELSE url
         newText == IF ~Truthy(item.data.videoId) /\ Truthy(item.data.transcript)
                    THEN item.data.transcript ELSE transcript
     IN /\ r.ok
        /\ data' = r.v
        /\ inputMode' = newMode
        /\ url' = newUrl
        /\ transcript' = newText
        /\ memoHistory' = Memo(newMode, newUrl, newText, history)
  /\ Observe(Event("load", "none", 0))
  /\ UNCHANGED <<isLoading, error, history, storage, ops, now, netCalls,
                 saved, budget, sanVars, uiVars, svcVars, quizVars>>

(***************************************************************************)
(* The application                                                         *)
(***************************************************************************)
SanIdle ==
  /\ sIn = NullData
  /\ sOut = Raised
  /\ sOut2 = Raised
  /\ sPc = "none"

\* No request has been built and no response handled.
SvcIdle ==
  /\ responseText = <<>>
  /\ transcriptText = ""
  /\ modelOutcome = Reject
  /\ config = NoConfig
  /\ parsed = ParseError("")
  /\ apiResponse = Reject
  /\ svcPc = "none"

\* QuizData as the sequence of its questions' correctAnswer; null.
Quiz(questions) == [k |-> "quiz", questions |-> questions]
NoQuiz == [k |-> "null", questions |-> <<>>]

\* No QuizInterface is mounted.
QuizIdle ==
  /\ quizData = NoQuiz
  /\ quizIsLoading = FALSE
  /\ currentQuestion = 0
  /\ selectedOption = -1
  /\ score = 0
  /\ showResult = FALSE
  /\ isFinished = FALSE
  /\ quizError = NULLV
  /\ promised = [t |-> "none", quiz |-> NoQuiz]
  /\ awaiting = "none"
  /\ answered = {}
  /\ qev = "idle"

\* The state after the first render and the mount effect, nothing stored;
\* the run may issue b requests.
AppInit(b) ==
  /\ budget = b
  /\ inputMode = "url"
  /\ url = UrlEmpty
  /\ transcript = ""
  /\ isLoading = FALSE
  /\ error = NoError
  /\ data = NullData
  /\ history = <<>>
  /\ storage = Absent
  /\ memoHistory = <<>>
  /\ ops = <<>>
  /\ now = 1
  /\ netCalls = 0
  /\ ev = Event("init", "none", 0)
  /\ saved = <<>>
  /\ UiIdle

Init == AppInit(MaxCalls) /\ SanIdle /\ SvcIdle /\ QuizIdle

Next ==
  \/ \E u \in TypedUrls : SetUrl(u)
  \/ \E t \in TypedTranscripts : SetTranscript(t)
  \/ \E m \in {"url", "transcript", "audio"} : SetInputMode(m)
  \/ handleAnalyze
  \/ \E kind \in FileKinds, size \in FileSizes : handleFileUpload(kind, size)
  \/ \E i \in 1..MaxOps, text \in PdfTexts, fails \in BOOLEAN : Prepare(i, text, fails)
  \/ \E i \in 1..MaxOps, o \in UrlOutcomes \cup ModelOutcomes : Finish(i, o)
  \/ \E n \in 1..HistoryCap : loadFromHistory(n)

Spec == Init /\ [][Next]_vars

(***************************************************************************)
(* The sanitizer on its own: sanitizeData applied to one parsed value, and *)
(* applied again to its own result                                         *)
(***************************************************************************)
Atoms == {"x", "y"}
Arrays == UNION {[1..n -> Atoms] : n \in 0..MaxLen}
Values == {Missing, NullArr, StrArr} \cup {Arr(a) : a \in Arrays}
FewValues == {Missing, StrArr, EmptyArr, Arr(<<"x", "y">>)}

Sections ==
  {NullSection, NumSection} \cup
  {Section("obj", t, p) : t \in {UNDEF, "Intro"}, p \in FewValues}
NoteValues ==
  {Missing, NullArr, StrArr} \cup
  {Arr(a) : a \in UNION {[1..n -> Sections] : n \in 0..MaxLen}}

Reviews ==
  {NoReview, NullReview, StrReview} \cup
  {Review("obj", i, r, p, c, v) :
     i \in {UNDEF, "", "Phone", NUM}, r \in {UNDEF, "5/5"},
     p \in FewValues, c \in FewValues, v \in {UNDEF, NULLV, "Buy"}}

\* An object with every array present, and one with none.
FullObject ==
  [EmptyObject EXCEPT
     !.videoId = ID1, !.title = "A", !.videoType = "Educational",
     !.timestamps = Arr(<<"x", "y">>), !.themes = Arr(<<"y", "x">>),
     !.studyNotes = Arr(<<Section("obj", "Intro", Arr(<<"y", "x">>))>>),
     !.quotes = Arr(<<"x">>), !.speakers = Arr(<<"y">>),
     !.subTopics = Arr(<<"x", "x">>)]

SanInputs ==
  {NullData} \cup
  UNION {
    {[b EXCEPT ![f] = v] : f \in FlatSeqFields, v \in Values} \cup
    {[b EXCEPT !.studyNotes = n] : n \in NoteValues} \cup
    {[b EXCEPT !.reviewDetails = r] : r \in Reviews} \cup
    {[b EXCEPT !.videoType = t] : t \in {UNDEF, NULLV, "", "News", NUM}}
    : b \in {EmptyObject, FullObject}}

SanInit ==
  /\ AppInit(MaxCalls)
  /\ sIn \in SanInputs
  /\ sOut = Raised
  /\ sOut2 = Raised
  /\ sPc = "in"
  /\ SvcIdle
  /\ QuizIdle

SanitizeOnce ==
  /\ sPc = "in"
  /\ sOut' = sanitizeData(sIn)
  /\ sPc' = "once"
  /\ UNCHANGED <<sIn, sOut2, appVars, uiVars, svcVars, quizVars>>

SanitizeTwice ==
  /\ sPc = "once"
  /\ sOut.ok
  /\ sOut2' = sanitizeData(sOut.v)
  /\ sPc' = "twice"
  /\ UNCHANGED <<sIn, sOut, appVars, uiVars, svcVars, quizVars>>

SanNext == SanitizeOnce \/ SanitizeTwice

SanSpec == SanInit /\ [][SanNext]_vars

(***************************************************************************)
(* One analysis after another: the user starts an analysis only when none  *)
(* is in flight, every request succeeds, and no result carries a video     *)
(* identifier, so that every saved item gets its own timestamp identifier. *)
(***************************************************************************)
CapInit == AppInit(HistoryCap + 1) /\ SanIdle /\ SvcIdle /\ QuizIdle

CapOutcomes == {Got(Body(UNDEF, "A", UNDEF))}

CapNext ==
  \/ SetUrl(UrlShort1)
  \/ \E m \in {"url", "audio"} : SetInputMode(m)
  \/ handleAnalyze
  \/ ops = <<>> /\ handleFileUpload("audio", MAX_SIZE)
  \/ Prepare(1, "", FALSE)
  \/ \E o \in CapOutcomes : Finish(1, o)

CapSpec == CapInit /\ [][CapNext]_vars

Reverse(seq) == [i \in 1..Len(seq) |-> seq[Len(seq) - i + 1]]

\* The n most recently saved items, newest first.
MostRecent(n) == Take(Reverse(saved), n)

DistinctIds(items) ==
  \A i, j \in 1..Len(items) : i # j => items[i].id # items[j].id

\* C2: after 11 analyses with pairwise distinct identifiers have completed
\* one after another, the history and the persisted array hold exactly the
\* 10 most recently saved items, newest first.
C2_HistoryCap ==
  (Len(saved) = HistoryCap + 1 /\ DistinctIds(saved) /\ ops = <<>>)
    => /\ history = MostRecent(HistoryCap)
       /\ storage = Stringify(MostRecent(HistoryCap))

(***************************************************************************)
(* Properties of the history store and of handleAnalyze (Spec)             *)
(***************************************************************************)
Occurrences(items, id) == Cardinality({i \in 1..Len(items) : items[i].id = id})

\* C1: when a step saves a record whose videoId is the id of an item that is
\* in the history, afterwards the history and the persisted array contain
\* exactly one item with that id, it is the first item, and it embeds the
\* record just saved.
C1_Dedup ==
  [][(ev'.kind = "success" /\ Truthy(data'.videoId)
        /\ Occurrences(history, data'.videoId) > 0)
       => /\ Occurrences(history', data'.videoId) = 1
          /\ history'[1].id = data'.videoId
          /\ history'[1].data = data'
          /\ storage' = Stringify(history')]_vars

\* A record with an identifier was saved twice, the second time with other
\* data, and the second save has just happened.
C1_Witness ==
  /\ ev.kind = "success"
  /\ Len(saved) = 2
  /\ saved[1].id = saved[2].id
  /\ saved[1].data # saved[2].data
  /\ Truthy(data.videoId)
  /\ history[1].data = saved[2].data

MismatchMessage == "Analysis Mismatch: The AI analyzed a different video."

\* The analysis of a URL resolving to `requested` returned a record whose
\* videoId is present, differs from it and is not the sentinel.
ForeignRecord(requested, result) ==
  /\ result.k = "obj"
  /\ result.videoId \notin {UNDEF, NULLV, "", NOT_FOUND, requested}

\* C3: a URL analysis that returns a record for another video ends with the
\* Mismatch error; the step that ends it leaves the active record, the
\* history and the persisted array as they were.
C3_Mismatch ==
  [][(ev'.op = "url" /\ ev'.kind \in {"success", "error"}
        /\ ForeignRecord(ev'.requested, ev'.result))
       => /\ ev'.kind = "error"
          /\ error' = MismatchMessage
          /\ data' = data
          /\ history' = history
          /\ storage' = storage]_vars

\* A URL analysis has just ended with the Mismatch error.
C3_Witness ==
  /\ ev.op = "url"
  /\ ev.kind = "error"
  /\ ForeignRecord(ev.requested, ev.result)
  /\ ev.requested = ID1
  /\ ev.result.videoId = ID2
  /\ error = MismatchMessage

\* C4: a URL analysis whose result carries the identifier "NOT_FOUND" ends
\* with an error that is not the Mismatch error, and no record with that
\* identifier is ever the active record or in the history.
C4_NotFound ==
  /\ data.videoId # NOT_FOUND
  /\ \A i \in 1..Len(history) : history[i].data.videoId # NOT_FOUND
  /\ (ev.op = "url" /\ ev.kind \in {"success", "error"}
        /\ ev.result.videoId = NOT_FOUND)
       => (ev.kind = "error" /\ error \notin {NoError, MismatchMessage})

ErrorKinds == {"validation", "rejected", "error"}

Unresolvable(u) == u.blank \/ ~u.marker \/ Len(u.token) # 11

\* C10: handleAnalyze in URL mode with a URL from which no 11-character
\* identifier can be resolved, or in transcript mode with a blank
\* transcript, sets a validation error and issues no request; isLoading, the
\* active record, the history and the persisted array stay as they were.
C10_ValidationGate ==
  [][(/\ ev'.kind \in {"validation", "start"}
      /\ \/ ev'.op = "url" /\ Unresolvable(url)
         \/ ev'.op = "transcript" /\ IsBlank(transcript))
       => /\ ev'.kind = "validation"
          /\ error' # NoError
          /\ UNCHANGED <<isLoading, data, history, storage, netCalls, ops>>]_vars

\* https://example.com/video has just been refused while a record is active.
C10_Witness ==
  /\ ev.kind = "validation"
  /\ inputMode = "url"
  /\ url = UrlExample
  /\ error = "Please provide a valid YouTube URL (youtube.com or youtu.be)."
  /\ data.k = "obj"
  /\ Len(history) > 0
  /\ netCalls = 1

(***************************************************************************)
(* Claims about sanitizeData (checked under SanSpec)                       *)
(***************************************************************************)
SeqFields == FlatSeqFields \cup {"studyNotes"}

\* Every array-typed position of a record holds an array, the points of
\* each study section included.
AllSequences(v) ==
  /\ \A f \in SeqFields : IsArray(v[f])
  /\ \A i \in 1..Len(v.studyNotes.a) : IsArray(v.studyNotes.a[i].points)

\* C5: for every input object, sanitizeData returns a record in which each
\* missing sequence field (timestamps, themes, studyNotes, quotes, speakers,
\* subTopics, points of a study section) is the empty sequence, and each
\* sequence that was present has the same elements in the same order.
C5_MissingSequences ==
  (sPc # "in" /\ sIn.k = "obj") =>
    /\ sOut.ok
    /\ \A f \in FlatSeqFields :
         /\ sIn[f].k = "missing" => sOut.v[f] = EmptyArr
         /\ sIn[f].k = "arr" => sOut.v[f] = sIn[f]
    /\ sIn.studyNotes.k = "missing" => sOut.v.studyNotes = EmptyArr
    /\ sIn.studyNotes.k = "arr" =>
         /\ Len(sOut.v.studyNotes.a) = Len(sIn.studyNotes.a)
         /\ \A i \in 1..Len(sIn.studyNotes.a) :
              LET a == sIn.studyNotes.a[i]
                  b == sOut.v.studyNotes.a[i]
              IN /\ b.title = a.title
                 /\ a.points.k = "missing" => b.points = EmptyArr
                 /\ a.points.k = "arr" => b.points = a.points

\* C6: sanitizeData is total: for every parsed input (null, objects with
\* non-array values in sequence positions, studyNotes with null or
\* non-object elements) it returns without raising, and every
\* sequence-typed field of the returned record is a sequence.
C6_Total == sPc # "in" => (sOut.ok /\ AllSequences(sOut.v))

\* C7: sanitizeData is idempotent: applied to its own result it returns
\* the same record, field by field.
C7_Idempotent == sPc = "twice" => sOut2 = sOut

\* C8: when sanitizeData returns, a review object of the source yields a
\* reviewDetails whose pros and cons are sequences and whose item and
\* verdict are non-empty strings, and a source without a review object
\* yields a result without reviewDetails.
C8_ReviewDetails ==
  (sPc # "in" /\ sIn.k = "obj" /\ sOut.ok) =>
    LET r == sOut.v.reviewDetails
    IN IF sIn.reviewDetails.k = "obj"
       THEN /\ r.k = "obj"
            /\ IsArray(r.pros) /\ IsArray(r.cons)
            /\ IsString(r.item) /\ r.item # ""
            /\ IsString(r.verdict) /\ r.verdict # ""
       ELSE r = NoReview

(***************************************************************************)
(* Properties of handleFileUpload (Spec)                                   *)
(***************************************************************************)
\* C11: handleFileUpload with a file of more than 20 MB sets an error and
\* starts nothing: isLoading, the active record, the history, the persisted
\* array, the requests issued and the operations in flight stay as they
\* were; with a file of at most 20 MB it starts the PDF, video or audio
\* operation of the file's kind.
C11_FileSizeAdmission ==
  [][(ev'.op \in FileKinds /\ ev'.kind \in {"rejected", "start"})
       => IF ev'.size > 20 * 1024 * 1024
          THEN /\ ev'.kind = "rejected"
               /\ error' # NoError
               /\ UNCHANGED <<isLoading, data, history, storage, netCalls, ops>>
          ELSE /\ ev'.kind = "start"
               /\ Len(ops') = Len(ops) + 1
               /\ ops'[Len(ops')].kind = ev'.op
               /\ ops'[Len(ops')].pc = "prep"
               /\ isLoading']_vars

\* A file one byte above the limit has just been refused while a record is
\* active and the history holds an item.
C11_Witness ==
  /\ ev.kind = "rejected"
  /\ ev.size = MAX_SIZE + 1
  /\ error = "File too large"
  /\ data.k = "obj"
  /\ Len(history) = 1
  /\ ~isLoading

(***************************************************************************)
(* App.tsx: the mount effect that loads the history (LoadSpec)             *)
(***************************************************************************)
\* Records found embedded in stored items: none (the item has no data key,
\* or null), {}, a record of an older shape without arrays, one whose
\* studyNotes holds a null element, and records as saveToHistory stores
\* them.
StoredRecords ==
  {NullData, EmptyObject, Body(ID1, "A", UNDEF),
   [Body(UNDEF, "B", "T1") EXCEPT !.studyNotes = Arr(<<NullSection>>)],
   sanitizeData(Body(ID2, "C", UNDEF)).v,
   sanitizeData(Body(UNDEF, "D", "T1")).v}

StoredItem(d) ==
  [id |-> IF Truthy(d.videoId) THEN d.videoId ELSE "1700000000000",
   title |-> d.title, date |-> 0, type |-> d.videoType,
   thumbnail |-> IF Truthy(d.videoId) THEN d.videoId ELSE UNDEF,
   data |-> d]

\* What localStorage may hold under 'yt_agent_history' when the page is
\* opened: nothing, the empty string, text that is not JSON, JSON that is
\* not an array (null, an object, a number), or a JSON array of items.
EmptyText == [k |-> "empty", items |-> <<>>]
NotJson == [k |-> "garbage", items |-> <<>>]
NotArray == [k |-> "nonarray", items |-> <<>>]
StoredValues ==
  {Absent, EmptyText, NotJson, NotArray} \cup
  {Stringify(items) :
     items \in UNION {[1..n -> {StoredItem(d) : d \in StoredRecords}] :
                        n \in 0..MaxLen}}

\* const saved = localStorage.getItem(..); if (saved) { ... }: null and ""
\* are falsy.
HasSavedText == storage.k \notin {"absent", "empty"}

\* parsedHistory.map(item => ({...item, data: sanitizeData(item.data)}))
safeHistory(items) ==
  [i \in 1..Len(items) |->
     [items[i] EXCEPT !.data = sanitizeData(items[i].data).v]]

MapRaises(items) == \E i \in 1..Len(items) : ~sanitizeData(items[i].data).ok

\* useEffect(() => { ... }, []): runs once, after the first render and
\* before any user event.
MountLoad ==
  /\ ev.kind = "boot"
  /\ IF ~HasSavedText
     THEN UNCHANGED <<history, storage>>
     ELSE IF storage.k = "array" /\ ~MapRaises(storage.items)
     THEN history' = safeHistory(storage.items) /\ UNCHANGED storage
     ELSE storage' = Absent /\ UNCHANGED history
  /\ Observe(Event("mount", "none", 0))
  /\ UNCHANGED <<inputMode, url, transcript, isLoading, error, data,
                 memoHistory, ops, now, netCalls, saved, budget, sanVars, uiVars, svcVars, quizVars>>

LoadInit ==
  /\ budget = MaxCalls
  /\ inputMode = "url"
  /\ url = UrlEmpty
  /\ transcript = ""
  /\ isLoading = FALSE
  /\ error = NoError
  /\ data = NullData
  /\ history = <<>>
  /\ storage \in StoredValues
  /\ memoHistory = <<>>
  /\ ops = <<>>
  /\ now = 1
  /\ netCalls = 0
  /\ ev = Event("boot", "none", 0)
  /\ saved = <<>>
  /\ SanIdle
  /\ UiIdle
  /\ SvcIdle
  /\ QuizIdle

LoadNext ==
  \/ MountLoad
  \/ ev.kind # "boot" /\ \E n \in 1..MaxLen : loadFromHistory(n)
  \/ ev.kind # "boot" /\ \E m \in {"url", "transcript", "audio"} : SetInputMode(m)

LoadSpec == LoadInit /\ [][LoadNext]_vars

\* C12: at startup, a stored value that fails to parse as JSON or parses to
\* something that is not an array is removed from storage, the history is
\* empty and no error is set.
C12_CorruptHistory ==
  [][(ev.kind = "boot" /\ ev'.kind = "mount"
        /\ storage.k \in {"empty", "garbage", "nonarray"})
       => /\ storage' = Absent
          /\ history' = <<>>
          /\ error' = NoError]_vars

\* A record is fully shaped: every sequence-valued field is a sequence and
\* videoType is a non-empty string.
FullyShaped(v) ==
  /\ v.k = "obj"
  /\ AllSequences(v)
  /\ IsString(v.videoType) /\ v.videoType # ""

\* C13: after the startup load of a stored array the record embedded in
\* every history item is fully shaped, whatever the stored record was
\* (missing and null records included), and so is the record that
\* loadFromHistory makes the active one.
C13_Resanitized ==
  [][/\ (ev.kind = "boot" /\ ev'.kind = "mount" /\ storage.k = "array")
         => \A i \in 1..Len(history') : FullyShaped(history'[i].data)
     /\ ev'.kind = "load" => FullyShaped(data')]_vars

(***************************************************************************)
(* The lifecycle of a history item (Spec)                                  *)
(***************************************************************************)
Holds(items, h) == \E j \in 1..Len(items) : items[j] = h

\* C14: every successful analysis puts its item first in the history and
\* in the persisted array, and an item of the history stays in both until
\* a save with the same identifier supersedes it or the cap of 10
\* displaces it, also while several analyses are in flight.
C14_Lifecycle ==
  [][/\ ev'.kind = "success"
         => /\ Len(history') > 0
            /\ history'[1].data = data'
            /\ storage' = Stringify(history')
     /\ \A i \in 1..Len(history) :
          \/ Holds(history', history[i])
          \/ ev'.kind = "success" /\ history'[1].id = history[i].id
          \/ ev'.kind = "success" /\ Len(history') = 10
    ]_vars

(***************************************************************************)
(* components/ChatInterface.tsx: the two conversational contexts           *)
(***************************************************************************)
MaxAsk == 2        \* questions accepted in one run

Records == {"A", "B"}
Topics == {"t1", "t2"}
Tabs == {"summary", "chat", "quiz", "research", "themes"}
ThemeQuery == "Tell me more about the theme"

\* The content of the n-th question the user submits.
Question(n) == <<"q1", "q2", "q3", "q4">>[n]

Message(role, content) == [role |-> role, content |-> content]
GreetVideo == Message("model", "Hi! I'm ready to answer questions about the video.")
GreetResearch == Message("model", "I've analyzed the topic.")
Unavailable == Message("model", "Context unavailable.")
ErrorMessage == Message("model", "Error generating response.")
Answer == Message("model", "answer")

\* One askVideoQuestion/askResearchQuestion call in flight: the context
\* handleSend captured (contextToUse), the question, and whether the
\* ChatInterface instance that issued it is still mounted.
Call(ctx, q, live) == [ctx |-> ctx, q |-> q, live |-> live]

\* {activeTab === 'chat' && <ChatInterface .../>}
chatMounted == shown # NULLV /\ activeTab = "chat"

SetChat(ac, vm, rm, ld) ==
  /\ activeContext' = ac
  /\ videoMessages' = vm
  /\ researchMessages' = rm
  /\ chatLoading' = ld

KeepChat ==
  UNCHANGED <<activeContext, videoMessages, researchMessages, chatLoading>>

Orphaned(cs) == [i \in 1..Len(cs) |-> [cs[i] EXCEPT !.live = FALSE]]

\* ChatInterface is unmounted: its state is discarded, and the calls it
\* issued go on without a component to report to.
UnmountChat ==
  /\ SetChat("video", <<>>, <<>>, FALSE)
  /\ calls' = Orphaned(calls)
  /\ UNCHANGED asked

\* ChatInterface is mounted with the props forcedContext = forced,
\* researchData = rd and initialQuery = iq.  The effects of the first
\* render run in order: the context is synchronised, the greetings are
\* set, and handleSend(initialQuery) runs in the closure of the first
\* render, in which activeContext is 'video' and isLoading is false.
MountChat(forced, rd, iq) ==
  /\ iq # "" => asked < MaxAsk
  /\ SetChat(IF forced # NULLV THEN forced ELSE "video",
             IF iq # "" THEN <<GreetVideo, Message("user", iq)>>
                        ELSE <<GreetVideo>>,
             IF rd # NULLV THEN <<GreetResearch>> ELSE <<>>,
             iq # "")
  /\ calls' = IF iq # "" THEN Append(Orphaned(calls), Call("video", iq, TRUE))
                         ELSE Orphaned(calls)
  /\ asked' = IF iq # "" THEN asked + 1 ELSE asked

KeepChatAll == KeepChat /\ UNCHANGED <<calls, asked>>

\* QuizInterface is mounted when the quiz tab becomes the active one; its
\* effect subscribes to the promise it is given.
QuizViewAfter(t) ==
  IF t # "quiz" THEN "none"
  ELSE IF activeTab = "quiz" THEN quizView
  ELSE IF quizPromise.st # "none" THEN "loading" ELSE "start"

nonUi == <<appVars, sanVars, svcVars, quizVars>>

UiObserve(e) == uev' = e

(***************************************************************************)
(* components/AnalysisResult.tsx                                           *)
(***************************************************************************)
\* App renders <AnalysisResult data={data} /> (data && !isLoading): a new
\* instance with its initial state; its effect starts generateQuiz(data)
\* and keeps the promise in quizPromiseRef.
ShowRecord(r) ==
  /\ shown = NULLV
  /\ shown' = r
  /\ quizPromise' = [st |-> "pending", for |-> r]
  /\ UiObserve(UiStep("show", NULLV, NULLV, 1))
  /\ UNCHANGED <<activeTab, chatInitialQuery, researchData, isResearching,
                 researchTopic,
                 resOps, forcedChatContext, quizView>>
  /\ KeepChatAll
  /\ UNCHANGED nonUi

\* A second analysis completes while a record is displayed: setData hands
\* the mounted instance another `data`.  The effect on [data] runs again
\* and finds quizPromiseRef.current set.
ReplaceRecord(r) ==
  /\ shown \notin {NULLV, r}
  /\ shown' = r
  /\ UiObserve(UiStep("replace", NULLV, NULLV,
                      IF quizPromise.st = "none" THEN 1 ELSE 0))
  /\ UNCHANGED <<activeTab, chatInitialQuery, researchData, isResearching,
                 researchTopic,
                 resOps, forcedChatContext, quizPromise, quizView>>
  /\ KeepChatAll
  /\ UNCHANGED nonUi

\* setData(null) or setIsLoading(true): AnalysisResult is unmounted with
\* everything below it.
HideRecord ==
  /\ shown # NULLV
  /\ shown' = NULLV
  /\ activeTab' = "summary"
  /\ chatInitialQuery' = ""
  /\ researchData' = NULLV
  /\ isResearching' = FALSE
  /\ researchTopic' = ""
  /\ resOps' = <<>>
  /\ forcedChatContext' = NULLV
  /\ quizPromise' = NoPromise
  /\ quizView' = "none"
  /\ UnmountChat
  /\ UiObserve(UiEvent("hide"))
  /\ UNCHANGED nonUi

\* A tab button: setActiveTab(t); the 'Ask AI' button also calls
\* setForcedChatContext(null).
SelectTab(t) ==
  /\ shown # NULLV
  /\ t # activeTab \/ (t = "chat" /\ forcedChatContext # NULLV)
  /\ activeTab' = t
  /\ forcedChatContext' = IF t = "chat" THEN NULLV ELSE forcedChatContext
  /\ quizView' = QuizViewAfter(t)
  /\ IF t = "chat" /\ activeTab # "chat"
     THEN MountChat(NULLV, researchData, chatInitialQuery)
     ELSE IF t = "chat"
     THEN /\ SetChat(IF researchData = NULLV THEN "video" ELSE activeContext,
                     videoMessages, researchMessages, chatLoading)
          /\ UNCHANGED <<calls, asked>>
     ELSE IF activeTab = "chat" THEN UnmountChat
     ELSE KeepChatAll
  /\ UiObserve(UiEvent("tab"))
  /\ UNCHANGED <<shown, chatInitialQuery, researchData, isResearching,
                 researchTopic,
                 resOps, quizPromise>>
  /\ UNCHANGED nonUi

\* setChatInitialQuery(..); setForcedChatContext('video'); setActiveTab('chat')
handleThemeClick ==
  /\ shown # NULLV
  /\ activeTab = "themes"
  /\ chatInitialQuery' = ThemeQuery
  /\ forcedChatContext' = "video"
  /\ activeTab' = "chat"
  /\ MountChat("video", researchData, ThemeQuery)
  /\ UiObserve(UiStep("theme", "video", ThemeQuery, 0))
  /\ UNCHANGED <<shown, researchData, isResearching, researchTopic, resOps, quizPromise,
                 quizView>>
  /\ UNCHANGED nonUi

\* setResearchTopic(topic); setActiveTab('research'); setResearchData(null);
\* setIsResearching(true); await performDeepResearch(topic)
handleDeepResearch(topic) ==
  /\ shown # NULLV
  /\ activeTab = "themes"
  /\ Len(resOps) < MaxOps
  /\ activeTab' = "research"
  /\ researchData' = NULLV
  /\ isResearching' = TRUE
  /\ researchTopic' = topic
  /\ resOps' = Append(resOps, topic)
  /\ UiObserve(UiEvent("research"))
  /\ UNCHANGED <<shown, chatInitialQuery, forcedChatContext, quizPromise,
                 quizView>>
  /\ KeepChatAll
  /\ UNCHANGED nonUi

\* performDeepResearch settles: setResearchData(result) on success, and
\* setIsResearching(false) in either case.  A mounted ChatInterface sets
\* the research greeting when researchData arrives and its research
\* sequence is empty.
ResearchDone(i, ok) ==
  /\ i \in 1..Len(resOps)
  /\ resOps' = Remove(resOps, i)
  /\ researchData' = IF ok THEN resOps[i] ELSE researchData
  /\ isResearching' = FALSE
  /\ UNCHANGED researchTopic
  /\ IF chatMounted /\ ok
     THEN SetChat(IF forcedChatContext # NULLV THEN forcedChatContext
                                              ELSE activeContext,
                  videoMessages,
                  IF researchMessages = <<>> THEN <<GreetResearch>>
                                             ELSE researchMessages,
                  chatLoading)
     ELSE KeepChat
  /\ UiObserve(UiEvent("researched"))
  /\ UNCHANGED <<shown, activeTab, chatInitialQuery, forcedChatContext,
                 quizPromise, quizView, calls, asked>>
  /\ UNCHANGED nonUi

\* The 'Chat about this' button of the research report:
\* setForcedChatContext('research'); setActiveTab('chat')
handleChatAboutResearch ==
  /\ shown # NULLV
  /\ activeTab = "research"
  /\ researchData # NULLV
  /\ ~isResearching
  /\ forcedChatContext' = "research"
  /\ activeTab' = "chat"
  /\ MountChat("research", researchData, chatInitialQuery)
  /\ UiObserve(UiEvent("chatAboutResearch"))
  /\ UNCHANGED <<shown, chatInitialQuery, researchData, isResearching,
                 researchTopic,
                 resOps, quizPromise, quizView>>
  /\ UNCHANGED nonUi

(***************************************************************************)
(* components/ChatInterface.tsx: the context toggle and handleSend         *)
(***************************************************************************)
KeepResult ==
  UNCHANGED <<shown, activeTab, chatInitialQuery, researchData, isResearching,
                 researchTopic,
              resOps, forcedChatContext, quizPromise, quizView>>

\* The Video / Research toggle; the Research button is rendered only when
\* researchData is set.
setActiveContext(c) ==
  /\ chatMounted
  /\ c # activeContext
  /\ c = "research" => researchData # NULLV
  /\ activeContext' = c
  /\ UiObserve(UiStep("toggle", c, NULLV, 0))
  /\ UNCHANGED <<videoMessages, researchMessages, chatLoading, calls, asked>>
  /\ KeepResult
  /\ UNCHANGED nonUi

Appended(ctx, msgs) ==
  /\ videoMessages' = IF ctx = "video" THEN videoMessages \o msgs
                                       ELSE videoMessages
  /\ researchMessages' = IF ctx = "research" THEN researchMessages \o msgs
                                             ELSE researchMessages

\* One flag for both contexts: if (!content.trim() || isLoading) return;
Busy == chatLoading

\* if (contextToUse === 'video') .. else if (contextToUse === 'research'
\* && researchData) .. else responseText = "Context unavailable."
HasContextAlways(ctx) == TRUE
HasContext(ctx) == ctx = "video" \/ researchData # NULLV

\* handleSend() with the next question typed into the input.
handleSend ==
  /\ chatMounted
  /\ asked < MaxAsk
  /\ LET q == Question(asked + 1)
         ctx == activeContext
     IN IF Busy
        THEN /\ UiObserve(UiStep("rejected", ctx, q, 0))
             /\ KeepChatAll
        ELSE IF HasContext(ctx)
        THEN /\ Appended(ctx, <<Message("user", q)>>)
             /\ chatLoading' = TRUE
             /\ calls' = Append(calls, Call(ctx, q, TRUE))
             /\ asked' = asked + 1
             /\ UiObserve(UiStep("sent", ctx, q, 0))
             /\ UNCHANGED activeContext
        ELSE /\ Appended(ctx, <<Message("user", q), Unavailable>>)
             /\ asked' = asked + 1
             /\ UiObserve(UiStep("unavailable", ctx, q, 0))
             /\ UNCHANGED <<activeContext, chatLoading, calls>>
  /\ KeepResult
  /\ UNCHANGED nonUi

\* The call settles: the answer, or "Error generating response." from the
\* catch block, is appended to the sequence of contextToUse, and finally
\* setIsLoading(false).  A call whose ChatInterface was unmounted updates
\* nothing.
ChatSettle(i, ok) ==
  /\ i \in 1..Len(calls)
  /\ calls' = Remove(calls, i)
  /\ LET c == calls[i]
     IN IF c.live
        THEN /\ Appended(c.ctx, <<IF ok THEN Answer ELSE ErrorMessage>>)
             /\ chatLoading' = FALSE
             /\ UiObserve(UiStep(IF ok THEN "answered" ELSE "failed", c.ctx, c.q, 0))
             /\ UNCHANGED activeContext
        ELSE /\ UiObserve(UiStep("dropped", c.ctx, c.q, 0))
             /\ KeepChat
  /\ UNCHANGED asked
  /\ KeepResult
  /\ UNCHANGED nonUi

(***************************************************************************)
(* components/QuizInterface.tsx and the prefetched quiz                    *)
(***************************************************************************)
\* generateQuiz resolves with { questions: [] } or rejects.
QuizOutcomes == {"empty", "rejected"}

KeepResultButQuiz ==
  UNCHANGED <<shown, activeTab, chatInitialQuery, researchData, isResearching,
                 researchTopic,
              resOps, forcedChatContext>>

\* The promise in quizPromiseRef settles.
QuizSettle(o) ==
  /\ quizPromise.st = "pending"
  /\ quizPromise' = [quizPromise EXCEPT !.st = o]
  /\ UiObserve(UiEvent("quizSettled"))
  /\ UNCHANGED quizView
  /\ KeepResultButQuiz
  /\ KeepChatAll
  /\ UNCHANGED nonUi

\* The then/catch callbacks of the mounted QuizInterface run.
QuizObserve ==
  /\ quizView = "loading"
  /\ quizPromise.st \in QuizOutcomes
  /\ quizView' = IF quizPromise.st = "empty"
                 THEN "Could not generate questions."
                 ELSE "Failed to generate quiz."
  /\ UiObserve(UiEvent("quizObserved"))
  /\ UNCHANGED quizPromise
  /\ KeepResultButQuiz
  /\ KeepChatAll
  /\ UNCHANGED nonUi

\* The 'Try Again' / 'Start Interactive Quiz' button: startQuiz calls
\* generateQuiz(data) itself.
startQuiz ==
  /\ quizView \notin {"none", "loading", "starting"}
  /\ quizView' = "starting"
  /\ UiObserve(UiEvent("quizStarted"))
  /\ UNCHANGED quizPromise
  /\ KeepResultButQuiz
  /\ KeepChatAll
  /\ UNCHANGED nonUi

startQuizDone(o) ==
  /\ quizView = "starting"
  /\ quizView' = IF o = "empty"
                 THEN "Could not generate questions from this content."
                 ELSE "Failed to generate quiz. Please try again."
  /\ UiObserve(UiEvent("quizRetried"))
  /\ UNCHANGED quizPromise
  /\ KeepResultButQuiz
  /\ KeepChatAll
  /\ UNCHANGED nonUi

(***************************************************************************)
(* The result view with its chat and quiz (UiSpec)                         *)
(***************************************************************************)
UiInit == AppInit(MaxCalls) /\ SanIdle /\ SvcIdle /\ QuizIdle

UiNext ==
  \/ \E r \in Records : ShowRecord(r)
  \/ \E r \in Records : ReplaceRecord(r)
  \/ HideRecord
  \/ \E t \in Tabs : SelectTab(t)
  \/ handleThemeClick
  \/ \E topic \in Topics : handleDeepResearch(topic)
  \/ \E i \in 1..MaxOps, ok \in BOOLEAN : ResearchDone(i, ok)
  \/ handleChatAboutResearch
  \/ \E c \in {"video", "research"} : setActiveContext(c)
  \/ handleSend
  \/ \E i \in 1..MaxAsk, ok \in BOOLEAN : ChatSettle(i, ok)
  \/ \E o \in QuizOutcomes : QuizSettle(o)
  \/ QuizObserve
  \/ startQuiz
  \/ \E o \in QuizOutcomes : startQuizDone(o)

UiSpec == UiInit /\ [][UiNext]_vars

(***************************************************************************)
(* ChatInterface on its own, mounted with any props its Props type allows  *)
(* (ChatSpec)                                                              *)
(***************************************************************************)
ChatInit == AppInit(MaxCalls) /\ SanIdle /\ SvcIdle /\ QuizIdle

ChatMountAny ==
  /\ shown = NULLV
  /\ \E r \in Records, forced \in {NULLV, "video", "research"},
        rd \in {NULLV} \cup Topics, iq \in {"", ThemeQuery} :
       /\ shown' = r
       /\ activeTab' = "chat"
       /\ forcedChatContext' = forced
       /\ researchData' = rd
       /\ chatInitialQuery' = iq
       /\ MountChat(forced, rd, iq)
  /\ UiObserve(UiEvent("mount"))
  /\ UNCHANGED <<isResearching, researchTopic, resOps, quizPromise, quizView>>
  /\ UNCHANGED nonUi

ChatNext ==
  \/ ChatMountAny
  \/ \E c \in {"video", "research"} : setActiveContext(c)
  \/ handleSend
  \/ \E i \in 1..MaxAsk, ok \in BOOLEAN : ChatSettle(i, ok)

ChatSpec == ChatInit /\ [][ChatNext]_vars

(***************************************************************************)
(* Properties of the conversational contexts (UiSpec, ChatSpec)            *)
(***************************************************************************)
\* A question of context ctx is awaiting its response.
Awaiting(ctx) == \E i \in 1..Len(calls) : calls[i].ctx = ctx

Messages(ctx) == IF ctx = "video" THEN videoMessages ELSE researchMessages
MessagesAfter(ctx) == IF ctx = "video" THEN videoMessages' ELSE researchMessages'

\* C15: while a question of a context is awaiting its response no further
\* model call is issued for that context; a rejected submission appends no
\* message and issues no call; an accepted question is appended at the end
\* of its context's sequence.
C15_OneQuestionPerContext ==
  [][/\ Len(calls') > Len(calls) => ~Awaiting(calls'[Len(calls')].ctx)
     /\ uev'.kind = "rejected"
          => (Awaiting(uev'.ctx) /\ calls' = calls
                /\ UNCHANGED <<videoMessages, researchMessages>>)
     /\ uev'.kind = "sent"
          => MessagesAfter(uev'.ctx)
               = Messages(uev'.ctx) \o <<Message("user", uev'.q)>>
    ]_vars

\* C16: a question submitted in a context none of whose questions is
\* awaiting its response is accepted, whatever is in flight in the other
\* context.
C16_IndependentContexts ==
  [][uev'.kind = "rejected" => Awaiting(uev'.ctx)]_vars

\* C17: when the call of an accepted question settles, exactly one model
\* message is appended to the sequence of the context the question was
\* submitted in, the other sequence is unchanged and the loading flag is
\* false.
C17_TerminalMessage ==
  [][uev'.kind \in {"answered", "failed", "dropped"}
       => /\ Len(MessagesAfter(uev'.ctx)) = Len(Messages(uev'.ctx)) + 1
          /\ SubSeq(MessagesAfter(uev'.ctx), 1, Len(Messages(uev'.ctx)))
               = Messages(uev'.ctx)
          /\ MessagesAfter(uev'.ctx)[Len(MessagesAfter(uev'.ctx))].role = "model"
          /\ uev'.ctx = "video" => researchMessages' = researchMessages
          /\ uev'.ctx = "research" => videoMessages' = videoMessages
          /\ ~chatLoading']_vars

IsPrefix(a, b) == Len(a) <= Len(b) /\ SubSeq(b, 1, Len(a)) = a

\* C18: while the same record is displayed, every step leaves the messages
\* already in either context's sequence in place, in their order.
C18_AppendOnly ==
  [][(shown # NULLV /\ shown' = shown)
       => /\ IsPrefix(videoMessages, videoMessages')
          /\ IsPrefix(researchMessages, researchMessages')]_vars

\* C19: a question submitted while the research context is active, no
\* research result is available and no answer is awaited gets the user
\* message and the fixed "Context unavailable." message appended to the
\* research sequence, and no model call is issued.
C19_ContextUnavailable ==
  [][(uev'.kind \in {"sent", "unavailable"} /\ uev'.ctx = "research"
        /\ researchData = NULLV)
       => /\ researchMessages'
               = researchMessages \o <<Message("user", uev'.q), Unavailable>>
          /\ calls' = calls
          /\ UNCHANGED <<videoMessages, chatLoading, activeContext>>]_vars

\* The research context is active without a research result and a
\* question has just been answered with the fixed message.
C19_Witness ==
  /\ uev.kind = "unavailable"
  /\ activeContext = "research"
  /\ researchData = NULLV
  /\ researchMessages = <<Message("user", uev.q), Unavailable>>
  /\ calls = <<>>
  /\ ~chatLoading

\* C20: while a record is displayed the quiz promise is the one
\* generateQuiz returned for that record; the prefetch effect starts
\* generateQuiz once when a record becomes the displayed one; and what a
\* visit of the quiz tab shows of the prefetched quiz is the outcome of
\* that promise.
C20_QuizSlot ==
  /\ shown # NULLV => (quizPromise.st # "none" /\ quizPromise.for = shown)
  /\ uev.kind \in {"show", "replace"} => uev.prefetched = 1
  /\ quizView = "Could not generate questions." => quizPromise.st = "empty"
  /\ quizView = "Failed to generate quiz." => quizPromise.st = "rejected"

(***************************************************************************)
(* One generation request and its response (GenSpec): the request an       *)
(* operation builds, the extraction of the model's text by the client and  *)
(* by the backend, and the answer of /api/analyze.                         *)
(***************************************************************************)
\* JSON texts the model may produce: {"a":1}, {"a":",]"}, {"a":[1,2,],},
\* {"a":1, }, {"a":",]",}, {"a":} and 1.
Bodies ==
  {<<"{", "\"a\"", ":", "1", "}">>,
   <<"{", "\"a\"", ":", "\",]\"", "}">>,
   <<"{", "\"a\"", ":", "[", "1", ",", "2", ",", "]", ",", "}">>,
   <<"{", "\"a\"", ":", "1", ",", " ", "}">>,
   <<"{", "\"a\"", ":", "\",]\"", ",", "}">>,
   <<"{", "\"a\"", ":", "}">>,
   <<"1">>}

\* The texts: a body, with or without commentary before and after it,
\* inside or outside an opening and a closing fence.
Texts ==
  {lead \o open \o inner \o body \o close \o trail :
     lead \in {<<>>, <<"Here", " ">>},
     open \in {<<>>, <<"<fence>", " ">>, <<"<fence>", "json", " ">>},
     inner \in {<<>>, <<"Here", " ">>},
     body \in Bodies,
     close \in {<<>>, <<" ", "<fence>">>},
     trail \in {<<>>, <<" ", "Here">>}}

\* What the model answers the request of /api/analyze with: the parsed
\* JSON, with or without a transcript of its own.
ApiOutcomes ==
  {Reject, Empty, Garbage, Got(NullData),
   Got(Body(ID1, "A", UNDEF)), Got(Body(ID1, "A", "M1"))}

GenInit ==
  /\ AppInit(MaxCalls)
  /\ SanIdle
  /\ QuizIdle
  /\ responseText \in Texts
  /\ transcriptText \in {"", "T1"}
  /\ modelOutcome \in ApiOutcomes
  /\ config = NoConfig
  /\ parsed = ParseError("")
  /\ apiResponse = Reject
  /\ svcPc = "in"

\* Operation s builds its request.
BuildRequest(s) ==
  /\ svcPc = "in"
  /\ config' = RequestConfig(s, transcriptText)
  /\ svcPc' = s
  /\ UNCHANGED <<responseText, transcriptText, modelOutcome, parsed, apiResponse>>
  /\ UNCHANGED <<appVars, sanVars, uiVars, quizVars>>

\* The client extracts the value from the model's text.
Extract ==
  /\ svcPc = "in"
  /\ parsed' = parseGenerativeJson(responseText)
  /\ svcPc' = "parseGenerativeJson"
  /\ UNCHANGED <<responseText, transcriptText, modelOutcome, config, apiResponse>>
  /\ UNCHANGED <<appVars, sanVars, uiVars, quizVars>>

\* The backend extracts the value from the model's text.
ServerExtract ==
  /\ svcPc = "in"
  /\ parsed' = serverParse(responseText)
  /\ svcPc' = "serverParse"
  /\ UNCHANGED <<responseText, transcriptText, modelOutcome, config, apiResponse>>
  /\ UNCHANGED <<appVars, sanVars, uiVars, quizVars>>

\* /api/analyze answers.
Route ==
  /\ svcPc = "in"
  /\ apiResponse' = apiAnalyze(transcriptText, modelOutcome)
  /\ svcPc' = "route"
  /\ UNCHANGED <<responseText, transcriptText, modelOutcome, config, parsed>>
  /\ UNCHANGED <<appVars, sanVars, uiVars, quizVars>>

GenNext ==
  \/ \E s \in Strategies : BuildRequest(s)
  \/ Extract
  \/ ServerExtract
  \/ Route

GenSpec == GenInit /\ [][GenNext]_vars

\* C21: no request built by a client operation or by /api/analyze carries
\* both the search-grounding tool and a strict structured-output
\* configuration (responseMimeType or responseSchema).
C21_GroundingExcludesStrict ==
  svcPc \in Strategies
    => ~(config.tools /\ (config.responseMimeType \/ config.responseSchema))

\* /api/analyze has built its request without a fetched transcript: the
\* request carries the search tool and no strict-output setting.
C21_Witness ==
  /\ svcPc = "/api/analyze"
  /\ transcriptText = ""
  /\ config.tools
  /\ ~config.responseMimeType
  /\ ~config.responseSchema

\* The strict parse of a span, and the parse of the repaired span only when
\* the strict parse fails.
StrictFirst(span) ==
  IF JsonParse(span).ok THEN JsonParse(span) ELSE JsonParse(repairJson(span))

\* C22: the client extractor and the backend both return the strict parse
\* of the text span whenever it succeeds (the value unaltered), and
\* otherwise the strict parse of the span with the commas before a closing
\* bracket or brace removed.
C22_StrictParseFirst ==
  svcPc \in {"parseGenerativeJson", "serverParse"}
    => /\ parsed.ok = StrictFirst(stripFences(responseText)).ok
       /\ parsed.v = StrictFirst(stripFences(responseText)).v

\* The span from the first '{' to the last '}' of a text (empty when the
\* text has no such span).
BraceSpan(s) ==
  LET opens == {i \in 1..Len(s) : s[i] = "{"}
      closes == {i \in 1..Len(s) : s[i] = "}"}
      last == CHOOSE x \in closes : \A y \in closes : y <= x
  IN IF opens = {} \/ closes = {} THEN <<>> ELSE SubSeq(s, Min(opens), last)

\* C23: when the span from the first '{' to the last '}' of the model's
\* text parses strictly, the client extractor returns that object; a text
\* without such a span yields an error; and the only error the extractor
\* yields is its 'failed to parse' error.
C23_ObjectInCommentary ==
  svcPc = "parseGenerativeJson"
    => /\ JsonParse(BraceSpan(responseText)).ok
            => (parsed.ok /\ parsed.v = JsonParse(BraceSpan(responseText)).v)
       /\ BraceSpan(responseText) = <<>> => ~parsed.ok
       /\ ~parsed.ok => parsed.err = "Failed to parse AI response."

\* C24: an analysis whose request the model answers without text ends in
\* an error; it neither sets the active record nor saves to the history.
C24_EmptyResponse ==
  [][ev'.empty
       => (ev'.kind = "error" /\ data' = data /\ history' = history
             /\ storage' = storage /\ saved' = saved)]_vars

\* C25: a successful answer of /api/analyze has a transcript field exactly
\* when the backend fetched a transcript, and then the field is the fetched
\* text.
C25_TranscriptField ==
  (svcPc = "route" /\ apiResponse.t = "body")
    => /\ (apiResponse.body.transcript # UNDEF) <=> (transcriptText # "")
       /\ transcriptText # "" => apiResponse.body.transcript = transcriptText

\* C26: the loading flag is set while an analysis is in flight; an analysis
\* starts only when none is in flight; and a record is committed only by
\* the analysis started last.
C26_SingleFlight ==
  /\ [](ops # <<>> => isLoading)
  /\ [][ev'.kind = "start" => ops = <<>>]_vars
  /\ [][ev'.kind = "success" => ops' = SubSeq(ops, 1, Len(ops) - 1)]_vars

\* C27: the loading flag of the research tab is set while a research
\* request is in flight, and a research result displayed while none is in
\* flight is the result for the topic requested last (researchTopic).
C27_ResearchFreshness ==
  /\ resOps # <<>> => isResearching
  /\ (researchData # NULLV /\ resOps = <<>>) => researchData = researchTopic

\* C28: what the quiz tab shows of the prefetched quiz belongs to the
\* record that is displayed.
C28_QuizOfActiveRecord ==
  (shown # NULLV
     /\ quizView \in {"Could not generate questions.", "Failed to generate quiz."})
    => quizPromise.for = shown

\* C29: a theme click submits its question once, in the video context;
\* opening the chat by its tab button or from the research report submits
\* no question.
C29_ThemeQuestionOnce ==
  [][/\ uev'.kind = "theme"
          => (/\ asked' = asked + 1
              /\ Len(calls') = Len(calls) + 1
              /\ calls'[Len(calls')] = Call("video", ThemeQuery, TRUE))
     /\ uev'.kind \in {"tab", "chatAboutResearch"}
          => (asked' = asked /\ Len(calls') = Len(calls))]_vars

(***************************************************************************)
(* components/QuizInterface.tsx on its own, mounted with any quizPromise   *)
(* its Props type allows (QuizSpec)                                        *)
(***************************************************************************)
MaxQuestions == 3  \* questions of a quiz

\* An option index: each question has the options 0 and 1.
Options == {0, 1}

\* The quizzes a promise may resolve with, the empty one included.
Quizzes == {Quiz(q) : q \in UNION {[1..n -> Options] : n \in 0..MaxQuestions}}

\* What the quizPromise prop is: null, or a promise that rejects or
\* resolves with a quiz.
Promises ==
  {[t |-> "none", quiz |-> NoQuiz], [t |-> "rejected", quiz |-> NoQuiz]}
    \cup {[t |-> "quiz", quiz |-> q] : q \in Quizzes}

\* The view the component renders.
QuizScreen ==
  IF quizIsLoading THEN "loading"
  ELSE IF quizError # NULLV THEN "error"
  ELSE IF quizData.k = "null" THEN "start"
  ELSE IF isFinished THEN "finished"
  ELSE "active"

\* The state after the first render and its effect, which subscribes to
\* the promise when there is one.
QuizInit ==
  /\ AppInit(MaxCalls)
  /\ SanIdle
  /\ SvcIdle
  /\ promised \in Promises
  /\ quizData = NoQuiz
  /\ quizIsLoading = (promised.t # "none")
  /\ awaiting = IF promised.t # "none" THEN "promise" ELSE "none"
  /\ currentQuestion = 0
  /\ selectedOption = -1
  /\ score = 0
  /\ showResult = FALSE
  /\ isFinished = FALSE
  /\ quizError = NULLV
  /\ answered = {}
  /\ qev = "mounted"

KeepProgress ==
  UNCHANGED <<currentQuestion, selectedOption, score, showResult, isFinished,
              answered>>

\* quizPromise.then(..).catch(..).finally(() => setIsLoading(false))
PromiseSettles ==
  /\ awaiting = "promise"
  /\ IF promised.t = "quiz" /\ Len(promised.quiz.questions) > 0
     THEN quizData' = promised.quiz /\ UNCHANGED quizError
     ELSE /\ quizError' = IF promised.t = "quiz"
                          THEN "Could not generate questions."
                          ELSE "Failed to generate quiz."
          /\ UNCHANGED quizData
  /\ quizIsLoading' = FALSE
  /\ awaiting' = "none"
  /\ qev' = "settled"
  /\ KeepProgress
  /\ UNCHANGED promised
  /\ UNCHANGED <<appVars, sanVars, uiVars, svcVars>>

\* The 'Start Interactive Quiz' / 'Try Again' button.
startQuizPressed ==
  /\ QuizScreen \in {"start", "error"}
  /\ quizIsLoading' = TRUE
  /\ quizError' = NULLV
  /\ awaiting' = "generateQuiz"
  /\ qev' = "started"
  /\ KeepProgress
  /\ UNCHANGED <<quizData, promised>>
  /\ UNCHANGED <<appVars, sanVars, uiVars, svcVars>>

\* generateQuiz(data) settles with outcome o.
startQuizSettles(o) ==
  /\ awaiting = "generateQuiz"
  /\ quizError' = IF o = "empty"
                  THEN "Could not generate questions from this content."
                  ELSE "Failed to generate quiz. Please try again."
  /\ quizIsLoading' = FALSE
  /\ awaiting' = "none"
  /\ qev' = "retried"
  /\ KeepProgress
  /\ UNCHANGED <<quizData, promised>>
  /\ UNCHANGED <<appVars, sanVars, uiVars, svcVars>>

\* if (showResult) return;
AnswerNeverLocked == FALSE
AnswerLocked == showResult

handleAnswer(index) ==
  /\ QuizScreen = "active"
  /\ IF AnswerLocked
     THEN /\ qev' = "ignored"
          /\ UNCHANGED <<selectedOption, showResult, score, answered>>
     ELSE /\ selectedOption' = index
          /\ showResult' = TRUE
          /\ score' = IF index = quizData.questions[currentQuestion + 1]
                      THEN score + 1 ELSE score
          /\ answered' = answered \cup {currentQuestion}
          /\ qev' = "answered"
  /\ UNCHANGED <<quizData, quizIsLoading, currentQuestion, isFinished,
                 quizError, promised, awaiting>>
  /\ UNCHANGED <<appVars, sanVars, uiVars, svcVars>>

\* The button under a revealed answer.
nextQuestion ==
  /\ QuizScreen = "active"
  /\ showResult
  /\ IF currentQuestion < Len(quizData.questions) - 1
     THEN /\ currentQuestion' = currentQuestion + 1
          /\ selectedOption' = -1
          /\ showResult' = FALSE
          /\ UNCHANGED isFinished
     ELSE /\ isFinished' = TRUE
          /\ UNCHANGED <<currentQuestion, selectedOption, showResult>>
  /\ qev' = "next"
  /\ UNCHANGED <<quizData, quizIsLoading, score, quizError, promised,
                 awaiting, answered>>
  /\ UNCHANGED <<appVars, sanVars, uiVars, svcVars>>

\* The 'Start New Quiz' button of the finished view.
restartQuiz ==
  /\ QuizScreen = "finished"
  /\ isFinished' = FALSE
  /\ currentQuestion' = 0
  /\ score' = 0
  /\ selectedOption' = -1
  /\ showResult' = FALSE
  /\ answered' = {}
  /\ qev' = "restarted"
  /\ UNCHANGED <<quizData, quizIsLoading, quizError, promised, awaiting>>
  /\ UNCHANGED <<appVars, sanVars, uiVars, svcVars>>

QuizNext ==
  \/ PromiseSettles
  \/ startQuizPressed
  \/ \E o \in QuizOutcomes : startQuizSettles(o)
  \/ \E index \in Options : handleAnswer(index)
  \/ nextQuestion
  \/ restartQuiz

QuizSpec == QuizInit /\ [][QuizNext]_vars

\* C30: with a loaded quiz, 0 <= score <= questions answered <= questions
\* and currentQuestion is an index of a question; the quiz is finished only
\* when every question has been answered; an answer to a revealed question
\* changes nothing; restartQuiz returns to question 0 with score 0 and the
\* same questions.
C30_QuizScoring ==
  /\ [](quizData.k = "quiz"
         => /\ 0 <= score
            /\ score <= Cardinality(answered)
            /\ Cardinality(answered) <= Len(quizData.questions)
            /\ currentQuestion \in 0..(Len(quizData.questions) - 1)
            /\ isFinished => answered = 0..(Len(quizData.questions) - 1))
  /\ [][(~isFinished /\ isFinished')
          => (showResult /\ currentQuestion = Len(quizData.questions) - 1)]_vars
  /\ [][(showResult /\ showResult')
          => UNCHANGED <<score, selectedOption, currentQuestion, answered>>]_vars
  /\ [][(isFinished /\ ~isFinished')
          => (/\ currentQuestion' = 0
              /\ score' = 0
              /\ ~showResult'
              /\ quizData' = quizData)]_vars

\* A quiz of MaxQuestions questions was answered to its end and restarted.
C30_Witness ==
  /\ qev = "restarted"
  /\ Len(quizData.questions) = MaxQuestions
  /\ currentQuestion = 0
  /\ score = 0
  /\ answered = {}

====
